---- MODULE Spec2Model ----
(***************************************************************************)
(* ULID generator: the Cloudflare-compatible codec and monotonic sequencer *)
(* (src/src/ulid-cloudflare.ts) and the facade over the `ulid` package     *)
(* (src/src/ulid-generator.ts).                                            *)
(*                                                                         *)
(* Representation.                                                         *)
(*  - A JavaScript string is a sequence of one-character strings; '' is    *)
(*    << >>.                                                               *)
(*  - A JavaScript number holding an integer is a pair <<hi, lo>> standing *)
(*    for hi * LIMB + lo with 0 <= lo < LIMB and LIMB = 32^5 = 2^25, so    *)
(*    that 2^48 - 1 and 32^10 are representable with 32-bit model          *)
(*    integers.  The code's arithmetic (% 32, exact division by 32,        *)
(*    * 32 + index) is carried out limb by limb on that pair.              *)
(*  - undefined is << >>.                                                  *)
(*  - A call's outcome is [status |-> "ok", value |-> v] or                *)
(*    [status |-> "throw", value |-> message].                             *)
(***************************************************************************)
EXTENDS Integers, Sequences, FiniteSets, TLC

VARIABLES
  now,      \* what Date.now() returns
  cf,       \* the CloudflareMonotonicUlidGenerator instance: seedTime, lastTime, lastRandom
  incs,     \* how many times in a row cf has incremented (bounds the model)
  gen,      \* the process-wide MonotonicUlidGenerator of ulid-generator.ts:
            \* seedTime and the state of its generator
  genIncs,  \* how many times in a row gen has incremented (bounds the model)
  ret,      \* the last call: op, arg, the clock it read, status and value
  emitted   \* history of cf: the last result it returned and the seedTime it had then
            \* (live: no reset since; a reset drops the value), and the same of the
            \* result before it (prevSome, prevLive, prevSeed)
  ,
  served    \* history of gen: the last ULID the process-wide generateMonotonicUlid
            \* returned to a call that specified the seed time TrackedSeed

vars == <<now, cf, incs, gen, genIncs, ret, emitted, served>>

----------------------------------------------------------------------------
(* Numbers *)

\* const ENCODING = '0123456789ABCDEFGHJKMNPQRSTVWXYZ'
ENCODING ==
  << "0", "1", "2", "3", "4", "5", "6", "7", "8", "9", "A", "B", "C", "D", "E", "F",
     "G", "H", "J", "K", "M", "N", "P", "Q", "R", "S", "T", "V", "W", "X", "Y", "Z" >>

\* const ENCODING_LEN = ENCODING.length
ENCODING_LEN == Len(ENCODING)

\* the limb of the two-limb numbers: 32^5
LIMB == ENCODING_LEN * ENCODING_LEN * ENCODING_LEN * ENCODING_LEN * ENCODING_LEN

Num(hi, lo) == <<hi, lo>>

Undefined == << >>

Zero == Num(0, 0)

\* a small integer as a number
Small(n) == Num(n \div LIMB, n % LIMB)

\* a < b on numbers
NumLess(a, b) == a[1] < b[1] \/ (a[1] = b[1] /\ a[2] < b[2])

\* JavaScript's time % 32: the remainder has the sign of the dividend
NumMod(time) ==
  IF time[1] < 0 /\ time[2] % ENCODING_LEN # 0
    THEN (time[2] % ENCODING_LEN) - ENCODING_LEN
    ELSE time[2] % ENCODING_LEN

\* (time - mod) / 32 with mod = time % 32: exact, rounds toward zero
NumDiv(time) ==
  LET fhi == time[1] \div ENCODING_LEN
      flo == (time[2] \div ENCODING_LEN)
               + (time[1] % ENCODING_LEN) * (LIMB \div ENCODING_LEN)
      up  == IF time[1] < 0 /\ time[2] % ENCODING_LEN # 0 THEN 1 ELSE 0
  IN  IF flo + up = LIMB THEN Num(fhi + 1, 0) ELSE Num(fhi, flo + up)

\* time * 32 + index, index in 0..31
NumMulAdd(time, index) ==
  LET lo == time[2] * ENCODING_LEN + index
  IN  Num(time[1] * ENCODING_LEN + (lo \div LIMB), lo % LIMB)

\* const TIME_MAX = Math.pow(2, 48) - 1
TIME_MAX == Num((LIMB \div 4) - 1, LIMB - 1)

\* const RANDOM_LEN = 16
RANDOM_LEN == 16

\* the literal 10 of encodeTime(timestamp, 10) and slice(0, 10)
TIME_LEN == 10

\* x || Date.now() takes the right operand when x is undefined or 0
Falsy(x) == x = Undefined \/ x = Zero

----------------------------------------------------------------------------
(* Strings *)

\* the characters the model draws strings from, in UTF-16 code unit order
CODE_UNITS ==
  << "0", "1", "2", "3", "4", "5", "6", "7", "8", "9",
     "A", "B", "C", "D", "E", "F", "G", "H", "I", "J", "K", "L", "M",
     "N", "O", "P", "Q", "R", "S", "T", "U", "V", "W", "X", "Y", "Z",
     "a", "i", "l", "o", "u", "z" >>

CharCode(c) == CHOOSE i \in 1..Len(CODE_UNITS) : CODE_UNITS[i] = c

\* a < b on strings: JavaScript compares code unit by code unit
StrLess(a, b) ==
  \/ Len(a) < Len(b) /\ SubSeq(b, 1, Len(a)) = a
  \/ \E i \in 1..Len(a) :
       /\ i <= Len(b)
       /\ SubSeq(a, 1, i - 1) = SubSeq(b, 1, i - 1)
       /\ CharCode(a[i]) < CharCode(b[i])

\* the 0-based position of each character of ENCODING
EncodingIndex ==
  [c \in {ENCODING[i] : i \in 1..ENCODING_LEN} |->
     (CHOOSE i \in 1..ENCODING_LEN : ENCODING[i] = c) - 1]

\* ENCODING.indexOf(char)
IndexOf(char) == IF char \in DOMAIN EncodingIndex THEN EncodingIndex[char] ELSE -1

\* ENCODING.charAt(index): '' outside the string
CharAt(index) ==
  IF index >= 0 /\ index < ENCODING_LEN THEN <<ENCODING[index + 1]>> ELSE << >>

\* str.slice(from, to) for 0 <= from <= to
Slice(str, from, to) ==
  SubSeq(str, from + 1, IF to < Len(str) THEN to ELSE Len(str))

Ok(v) == [status |-> "ok", value |-> v]

Throw(message) == [status |-> "throw", value |-> message]

----------------------------------------------------------------------------
(* Inputs *)

\* how many times in a row the model lets one sequencer increment
MaxIncs == 3

\* 2022-01-01 and 2022-01-02 (the tests' seed times)
T1 == Num(48905, 15703040)

T2 == Num(48908, 1439744)

\* values Date.now() can return: before 1970, the epoch, later
\* the seed time whose results the history variable served follows
TrackedSeed == T1

ClockValues == {Small(-1), Zero, T1, TIME_MAX}

\* values of the seedTime argument
Seeds == {Undefined, Small(-1), Zero, T1, T2, TIME_MAX, Num(LIMB \div 4, 0)}

\* the bytes the random source delivers to one encodeRandom call
RandomStreams ==
  { [i \in 1..RANDOM_LEN |-> IF i < RANDOM_LEN THEN b ELSE c] :
      b \in {0, 255}, c \in {250, 255} }

----------------------------------------------------------------------------
(* Codec helpers of ulid-cloudflare.ts *)

RECURSIVE encodeTimeLoop_Appends(_, _, _)
\* a variant that appends each digit instead of prepending it
encodeTimeLoop_Appends(time, i, str) ==
  IF i > 0
    THEN encodeTimeLoop_Appends(NumDiv(time), i - 1, str \o CharAt(NumMod(time)))
    ELSE str

RECURSIVE encodeTimeLoop(_, _, _)
\* for (let i = len; i > 0; i--) { mod = time % 32; str = charAt(mod) + str; time = (time - mod) / 32 }
encodeTimeLoop(time, i, str) ==
  IF i > 0
    THEN encodeTimeLoop(NumDiv(time), i - 1, CharAt(NumMod(time)) \o str)
    ELSE str

\* encodeTime(t, 10) of the model's clock values and seed times, computed once
EncodedTimes ==
  [t \in (ClockValues \cup Seeds) \ {Undefined} |-> encodeTimeLoop(t, TIME_LEN, << >>)]

encodeTime(time, len) ==
  IF len = TIME_LEN /\ time \in DOMAIN EncodedTimes
    THEN EncodedTimes[time]
    ELSE encodeTimeLoop(time, len, << >>)

RECURSIVE encodeRandomLoop(_, _, _, _)
\* for (let i = 0; i < len; i++) { random = array[0] % 32; str += charAt(random) }
\* bytes[i + 1] is the byte crypto.getRandomValues delivers in round i
encodeRandomLoop(len, bytes, i, str) ==
  IF i < len
    THEN encodeRandomLoop(len, bytes, i + 1, str \o CharAt(bytes[i + 1] % ENCODING_LEN))
    ELSE str

\* encodeRandom(16) on each of the model's byte streams, computed once
EncodedRandoms == [bytes \in RandomStreams |-> encodeRandomLoop(RANDOM_LEN, bytes, 0, << >>)]

encodeRandom(len, bytes) ==
  IF len = RANDOM_LEN /\ bytes \in DOMAIN EncodedRandoms
    THEN EncodedRandoms[bytes]
    ELSE encodeRandomLoop(len, bytes, 0, << >>)

RECURSIVE decodeTimeLoop(_, _, _)
\* for (let i = 0; i < encodedTime.length; i++) { ...; time = time * 32 + index }
\* (the thrown messages are kept up to the colon: the offending character that
\* follows it in the code is left out)
decodeTimeLoop(encodedTime, i, time) ==
  IF i < Len(encodedTime)
    THEN LET index == IndexOf(encodedTime[i + 1])
         IN  IF index = -1
               THEN Throw("Invalid character in ULID")
               ELSE decodeTimeLoop(encodedTime, i + 1, NumMulAdd(time, index))
    ELSE Ok(time)

decodeTime(encodedTime) == decodeTimeLoop(encodedTime, 0, Zero)

RECURSIVE incrementLoop_KeepsCarriedDigits(_, _)
\* a variant that leaves a maximal digit as it is when it carries
incrementLoop_KeepsCarriedDigits(chars, i) ==
  IF i >= 0
    THEN LET currentIndex == IndexOf(chars[i + 1])
         IN  IF currentIndex = -1
               THEN Throw("Invalid character")
               ELSE IF currentIndex < ENCODING_LEN - 1
                      THEN Ok([chars |-> [chars EXCEPT ![i + 1] = ENCODING[currentIndex + 2]],
                               i |-> i])
                      ELSE incrementLoop_KeepsCarriedDigits(chars, i - 1)
    ELSE Ok([chars |-> chars, i |-> i])

RECURSIVE incrementLoop(_, _)
\* the while (i >= 0) loop of incrementBase32: the characters and the index it ends with
incrementLoop(chars, i) ==
  IF i >= 0
    THEN LET currentIndex == IndexOf(chars[i + 1])
         IN  IF currentIndex = -1
               THEN Throw("Invalid character")
               ELSE IF currentIndex < ENCODING_LEN - 1
                      THEN Ok([chars |-> [chars EXCEPT ![i + 1] = ENCODING[currentIndex + 2]],
                               i |-> i])
                      ELSE incrementLoop([chars EXCEPT ![i + 1] = ENCODING[1]], i - 1)
    ELSE Ok([chars |-> chars, i |-> i])

\* a variant that wraps around to the carried digits instead of drawing anew
incrementBase32_WrapsAround(str, bytes) ==
  LET end == incrementLoop(str, Len(str) - 1)
  IN  IF end.status = "throw" THEN end ELSE Ok(end.value.chars)

\* bytes: what the random source delivers if the counter overflows
incrementBase32(str, bytes) ==
  LET end == incrementLoop(str, Len(str) - 1)
  IN  IF end.status = "throw"
        THEN end
        ELSE IF end.value.i < 0
               THEN Ok(encodeRandom(Len(str), bytes))
               ELSE Ok(end.value.chars)

----------------------------------------------------------------------------
(* The `ulid` package (imported at ulid-generator.ts:1, not part of the      *)
(* repository's sources), after the specification's sections 4.2 to 4.5,     *)
(* and MonotonicUlidGenerator of ulid-generator.ts over it                   *)

\* ulid(seedTime?): the given or the current time, rejected outside
\* [0, 2^48 - 1], encoded in 10 characters and followed by 16 random ones
ulid(seedTime, clock, bytes) ==
  LET ms == IF seedTime = Undefined THEN clock ELSE seedTime
  IN  IF NumLess(ms, Zero) \/ NumLess(TIME_MAX, ms)
        THEN Throw("TimeRangeError")
        ELSE Ok(encodeTime(ms, TIME_LEN) \o encodeRandom(RANDOM_LEN, bytes))

\* monotonicFactory(): a sequencer in its Fresh state
monotonicFactory == [lastTime |-> Zero, lastRandom |-> << >>]

\* the function monotonicFactory() returned, called with time t in state f:
\* the string it returns and the state it leaves
MonotonicCall(f, t, bytes) ==
  IF NumLess(t, Zero) \/ NumLess(TIME_MAX, t)
    THEN [out |-> Throw("TimeRangeError"), f |-> f]
    ELSE IF t = f.lastTime
           THEN LET inc == incrementBase32(f.lastRandom, bytes)
                IN  IF inc.status = "throw"
                      THEN [out |-> inc, f |-> f]
                      ELSE [out |-> Ok(encodeTime(t, TIME_LEN) \o inc.value),
                            f |-> [f EXCEPT !.lastRandom = inc.value]]
           ELSE LET randomPart == encodeRandom(RANDOM_LEN, bytes)
                IN  [out |-> Ok(encodeTime(t, TIME_LEN) \o randomPart),
                     f |-> [lastTime |-> t, lastRandom |-> randomPart]]

\* new MonotonicUlidGenerator(seedTime)
GenNew(seedTime) == [seedTime |-> seedTime, generator |-> monotonicFactory]

\* MonotonicUlidGenerator.reset(seedTime)
GenReset(g, seedTime) == [seedTime |-> seedTime, generator |-> monotonicFactory]

\* MonotonicUlidGenerator.generateMonotonicUlid() on g at clock reading clock:
\* the outcome and the generator it leaves
GenGenerate(g, clock, bytes) ==
  LET timestamp == IF Falsy(g.seedTime) THEN clock ELSE g.seedTime
      generated == MonotonicCall(g.generator, timestamp, bytes)
  IN  IF generated.out.status = "throw"
        THEN [out |-> generated.out, g |-> g]
        ELSE [out |-> Ok([ulid |-> generated.out.value,
                          timestamp |-> timestamp,
                          randomness |-> Slice(generated.out.value, 10,
                                               Len(generated.out.value))]),
              g |-> [g EXCEPT !.generator = generated.f]]

\* generateMonotonicUlid(options) on the process-wide generator g
GlobalGenerate(g, seedTime, clock, bytes) ==
  GenGenerate(IF ~Falsy(seedTime) /\ seedTime # g.seedTime
                THEN GenReset(g, seedTime)
                ELSE g,
              clock, bytes)

----------------------------------------------------------------------------
(* CloudflareMonotonicUlidGenerator *)

\* nothing emitted yet
NoneEmitted ==
  [some |-> FALSE, live |-> FALSE, seedTime |-> Undefined, value |-> Undefined,
   prevSome |-> FALSE, prevLive |-> FALSE, prevSeed |-> Undefined]

\* constructor(private seedTime?: number), lastTime = 0, lastRandom = ''
CfNew(seedTime) == [seedTime |-> seedTime, lastTime |-> Zero, lastRandom |-> << >>]

\* timestamp < 0 || timestamp > TIME_MAX
TimeOutOfRange_NoUpperBound(timestamp) == NumLess(timestamp, Zero)

TimeOutOfRange(timestamp) == NumLess(timestamp, Zero) \/ NumLess(TIME_MAX, timestamp)

\* a variant that increments whenever the timestamp is not earlier than lastTime
MonotonicEmit_IncrementsWhenNotEarlier(g, timestamp, bytes) ==
  LET timeStr == encodeTime(timestamp, TIME_LEN)
  IN  IF ~NumLess(timestamp, g.lastTime)
        THEN LET inc == incrementBase32(g.lastRandom, bytes)
             IN  IF inc.status = "throw"
                   THEN [out |-> inc, g |-> g]
                   ELSE [out |-> Ok([ulid |-> timeStr \o inc.value,
                                     timestamp |-> timestamp,
                                     randomness |-> inc.value]),
                         g |-> [g EXCEPT !.lastTime = timestamp,
                                         !.lastRandom = inc.value]]
        ELSE LET randomStr == encodeRandom(RANDOM_LEN, bytes)
             IN  [out |-> Ok([ulid |-> timeStr \o randomStr,
                              timestamp |-> timestamp,
                              randomness |-> randomStr]),
                  g |-> [g EXCEPT !.lastTime = timestamp, !.lastRandom = randomStr]]

\* generateMonotonicUlid() past the range check: the outcome and the state it leaves
MonotonicEmit(g, timestamp, bytes) ==
  LET timeStr == encodeTime(timestamp, TIME_LEN)
  IN  IF timestamp = g.lastTime
        THEN LET inc == incrementBase32(g.lastRandom, bytes)
             IN  IF inc.status = "throw"
                   THEN [out |-> inc, g |-> g]
                   ELSE [out |-> Ok([ulid |-> timeStr \o inc.value,
                                     timestamp |-> timestamp,
                                     randomness |-> inc.value]),
                         g |-> [g EXCEPT !.lastRandom = inc.value]]
        ELSE LET randomStr == encodeRandom(RANDOM_LEN, bytes)
             IN  [out |-> Ok([ulid |-> timeStr \o randomStr,
                              timestamp |-> timestamp,
                              randomness |-> randomStr]),
                  g |-> [g EXCEPT !.lastTime = timestamp, !.lastRandom = randomStr]]

\* a variant that stores the timestamp before it validates it
MonotonicUlid_StoresBeforeCheck(g, clock, bytes) ==
  LET timestamp == IF Falsy(g.seedTime) THEN clock ELSE g.seedTime
  IN  IF TimeOutOfRange(timestamp)
        THEN [out |-> Throw("Time must be a positive number"),
              g |-> [g EXCEPT !.lastTime = timestamp]]
        ELSE MonotonicEmit(g, timestamp, bytes)

\* generateMonotonicUlid() on sequencer state g at clock reading clock:
\* the outcome and the sequencer state it leaves
MonotonicUlid(g, clock, bytes) ==
  LET timestamp == IF Falsy(g.seedTime) THEN clock ELSE g.seedTime
  IN  IF TimeOutOfRange(timestamp)
        THEN [out |-> Throw("Time must be a positive number"), g |-> g]
        ELSE MonotonicEmit(g, timestamp, bytes)

\* timestamp === this.lastTime for the call that would run now
CfRepeats == (IF Falsy(cf.seedTime) THEN now ELSE cf.seedTime) = cf.lastTime

CfGenerateMonotonicUlid ==
  /\ CfRepeats => incs < MaxIncs
  /\ \E bytes \in RandomStreams :
       LET r == MonotonicUlid(cf, now, bytes)
       IN  /\ cf' = r.g
           /\ ret' = [op |-> "generateMonotonicUlid", arg |-> Undefined, clock |-> now,
                      status |-> r.out.status, value |-> r.out.value]
           /\ emitted' = IF r.out.status = "ok"
                           THEN [some |-> TRUE, live |-> TRUE, seedTime |-> cf.seedTime,
                                 value |-> r.out.value,
                                 prevSome |-> emitted.some, prevLive |-> emitted.live,
                                 prevSeed |-> emitted.seedTime]
                           ELSE emitted
  /\ incs' = IF CfRepeats /\ ret'.status = "ok" THEN incs + 1
             ELSE IF ret'.status = "ok" THEN 0 ELSE incs
  /\ UNCHANGED <<now, gen, genIncs, served>>

\* reset(seedTime?: number)
CfReset ==
  /\ \E seedTime \in Seeds :
       /\ cf' = [seedTime |-> seedTime, lastTime |-> Zero, lastRandom |-> << >>]
       /\ ret' = [op |-> "reset", arg |-> seedTime, clock |-> Undefined,
                  status |-> "ok", value |-> Undefined]
  /\ incs' = 0
  /\ emitted' = [emitted EXCEPT !.live = FALSE, !.value = Undefined]
  /\ UNCHANGED <<now, gen, genIncs, served>>

\* the wall clock is set or advances between calls
Tick ==
  /\ now' \in ClockValues \ {now}
  /\ UNCHANGED <<cf, incs, gen, genIncs, ret, emitted, served>>

Init ==
  /\ now \in ClockValues
  /\ \E seedTime \in Seeds : cf = CfNew(seedTime)
  /\ incs = 0
  /\ gen = GenNew(Undefined)
  /\ genIncs = 0
  /\ ret = [op |-> "new", arg |-> cf.seedTime, clock |-> Undefined,
            status |-> "ok", value |-> Undefined]
  /\ emitted = NoneEmitted
  /\ served = Undefined

Next ==
  \/ Tick
  \/ CfGenerateMonotonicUlid
  \/ CfReset

\* one CloudflareMonotonicUlidGenerator instance, its caller and the clock
Spec == Init /\ [][Next]_vars

----------------------------------------------------------------------------
(* generateCloudflareUlid and parseCloudflareUlid *)

CloudflareUlid(seedTime, clock, bytes) ==
  LET timestamp == IF Falsy(seedTime) THEN clock ELSE seedTime
  IN  IF TimeOutOfRange(timestamp)
        THEN Throw("Time must be a positive number")
        ELSE LET timeStr   == encodeTime(timestamp, TIME_LEN)
                 randomStr == encodeRandom(RANDOM_LEN, bytes)
             IN  Ok([ulid |-> timeStr \o randomStr,
                     timestamp |-> timestamp,
                     randomness |-> randomStr])

GenerateCloudflareUlid ==
  /\ \E seedTime \in Seeds, bytes \in RandomStreams :
       LET r == CloudflareUlid(seedTime, now, bytes)
       IN  ret' = [op |-> "generateCloudflareUlid", arg |-> seedTime, clock |-> now,
                   status |-> r.status, value |-> r.value]
  /\ UNCHANGED <<now, cf, incs, gen, genIncs, emitted, served>>

\* a variant that splits one character early
CloudflareParse_SplitsAtNine(ulidString) ==
  IF Len(ulidString) # 26
    THEN Throw("Invalid ULID length")
    ELSE LET timestampPart  == Slice(ulidString, 0, 9)
             randomnessPart == Slice(ulidString, 9, Len(ulidString))
             timestamp      == decodeTime(timestampPart)
         IN  IF timestamp.status = "throw"
               THEN timestamp
               ELSE Ok([ulid |-> ulidString,
                        timestampPart |-> timestampPart,
                        randomnessPart |-> randomnessPart,
                        timestamp |-> timestamp.value,
                        date |-> timestamp.value])

\* parseCloudflareUlid(ulidString); date is the Date's time value
CloudflareParse(ulidString) ==
  IF Len(ulidString) # 26
    THEN Throw("Invalid ULID length")
    ELSE LET timestampPart  == Slice(ulidString, 0, 10)
             randomnessPart == Slice(ulidString, 10, Len(ulidString))
             timestamp      == decodeTime(timestampPart)
         IN  IF timestamp.status = "throw"
               THEN timestamp
               ELSE Ok([ulid |-> ulidString,
                        timestampPart |-> timestampPart,
                        randomnessPart |-> randomnessPart,
                        timestamp |-> timestamp.value,
                        date |-> timestamp.value])

\* the known vector of the tests: 01FR9EZ700RPB9GR0NVWG3MYFY
KnownUlid ==
  << "0", "1", "F", "R", "9", "E", "Z", "7", "0", "0",
     "R", "P", "B", "9", "G", "R", "0", "N", "V", "W", "G", "3", "M", "Y", "F", "Y" >>

\* the longest string the model hands to parse
MaxParseLen == 28

\* characters that are not in ENCODING
BadChars == {"I", "L", "O", "U", "a", "z"}

RECURSIVE Repeat(_, _)
Repeat(c, n) == IF n = 0 THEN << >> ELSE <<c>> \o Repeat(c, n - 1)

\* strings handed to parse: every length up to MaxParseLen, the known vector,
\* the known vector with one character replaced at each position, the largest value
ParseInputs ==
  {Repeat("0", n) : n \in 0..MaxParseLen}
    \cup {SubSeq(KnownUlid, 1, n) : n \in 0..Len(KnownUlid)}
    \cup {KnownUlid \o Repeat("Z", n) : n \in 1..(MaxParseLen - Len(KnownUlid))}
    \cup {[KnownUlid EXCEPT ![p] = c] : p \in 1..Len(KnownUlid), c \in BadChars \cup {"Z"}}
    \cup {Repeat("Z", Len(KnownUlid)), <<"i", "n", "v", "a", "l", "i", "d">>}

ParseCloudflareUlid ==
  /\ \E ulidString \in ParseInputs :
       LET r == CloudflareParse(ulidString)
       IN  ret' = [op |-> "parseCloudflareUlid", arg |-> ulidString, clock |-> Undefined,
                   status |-> r.status, value |-> r.value]
  /\ UNCHANGED <<now, cf, incs, gen, genIncs, emitted, served>>

InitFacade ==
  /\ now \in ClockValues
  /\ cf = CfNew(Undefined)
  /\ incs = 0
  /\ gen = GenNew(Undefined)
  /\ genIncs = 0
  /\ ret = [op |-> "none", arg |-> Undefined, clock |-> Undefined,
            status |-> "ok", value |-> Undefined]
  /\ emitted = NoneEmitted
  /\ served = Undefined

NextFacade ==
  \/ Tick
  \/ GenerateCloudflareUlid

\* generateCloudflareUlid, its caller and the clock
SpecFacade == InitFacade /\ [][NextFacade]_vars

NextParse == ParseCloudflareUlid

\* parseCloudflareUlid and its caller
SpecParse == InitFacade /\ [][NextParse]_vars

NextCalls ==
  \/ Tick
  \/ CfGenerateMonotonicUlid
  \/ GenerateCloudflareUlid

\* both generation entry points of ulid-cloudflare.ts, the sequencer constructed
\* with any seed time (reset leaves the sequencer as the constructor does, so its
\* states are those of Init)
SpecCalls == Init /\ [][NextCalls]_vars

----------------------------------------------------------------------------
(* The generation functions of ulid-generator.ts *)

\* generateStandardUlid(): ulid() reads clock, then Date.now() reads later
StandardUlid(clock, later, bytes) ==
  LET generated == ulid(Undefined, clock, bytes)
  IN  IF generated.status = "throw"
        THEN generated
        ELSE Ok([ulid |-> generated.value,
                 timestamp |-> later,
                 randomness |-> Slice(generated.value, 10, Len(generated.value))])

\* generateSeededUlid(options)
SeededUlid(options, clock, bytes) ==
  LET seedTime  == IF Falsy(options) THEN clock ELSE options
      generated == ulid(seedTime, clock, bytes)
  IN  IF generated.status = "throw"
        THEN generated
        ELSE Ok([ulid |-> generated.value,
                 timestamp |-> seedTime,
                 randomness |-> Slice(generated.value, 10, Len(generated.value))])

\* generateStandardUlid(): the clock may have advanced to later between the
\* read ulid() makes and the read Date.now() makes
GenerateStandardUlid ==
  /\ \E bytes \in RandomStreams, later \in ClockValues :
       /\ ~NumLess(later, now)
       /\ LET r == StandardUlid(now, later, bytes)
          IN  /\ ret' = [op |-> "generateStandardUlid", arg |-> Undefined,
                         clock |-> now, status |-> r.status, value |-> r.value]
              /\ now' = IF r.status = "throw" THEN now ELSE later
  /\ UNCHANGED <<cf, incs, gen, genIncs, emitted, served>>

\* a variant that takes its ULID from the process-wide generator
GenerateSeededUlid_ThroughProcessWide ==
  /\ \E options \in Seeds, bytes \in RandomStreams :
       LET r == GlobalGenerate(gen, options, now, bytes)
       IN  /\ gen' = r.g
           /\ ret' = [op |-> "generateSeededUlid", arg |-> options, clock |-> now,
                      status |-> r.out.status, value |-> r.out.value]
  /\ UNCHANGED <<now, cf, incs, genIncs, emitted, served>>

\* generateSeededUlid(options)
GenerateSeededUlid ==
  /\ \E options \in Seeds, bytes \in RandomStreams :
       LET r == SeededUlid(options, now, bytes)
       IN  ret' = [op |-> "generateSeededUlid", arg |-> options, clock |-> now,
                   status |-> r.status, value |-> r.value]
  /\ UNCHANGED <<now, cf, incs, gen, genIncs, emitted, served>>

\* the call generateMonotonicUlid({seedTime: options}) would increment
GenRepeats(options) ==
  /\ Falsy(options) \/ options = gen.seedTime
  /\ (IF Falsy(gen.seedTime) THEN now ELSE gen.seedTime) = gen.generator.lastTime

\* generateMonotonicUlid(options) on the process-wide generator
GenerateMonotonicUlid ==
  /\ \E options \in Seeds, bytes \in RandomStreams :
       /\ GenRepeats(options) => genIncs < MaxIncs
       /\ LET r == GlobalGenerate(gen, options, now, bytes)
          IN  /\ gen' = r.g
              /\ ret' = [op |-> "generateMonotonicUlid", arg |-> options, clock |-> now,
                         status |-> r.out.status, value |-> r.out.value]
              /\ genIncs' = IF r.out.status = "throw" THEN genIncs
                            ELSE IF GenRepeats(options) THEN genIncs + 1 ELSE 0
              /\ served' = IF r.out.status = "ok" /\ options = TrackedSeed
                             THEN r.out.value.ulid
                             ELSE served
  /\ UNCHANGED <<now, cf, incs, emitted>>

NextGen ==
  \/ Tick
  \/ GenerateStandardUlid
  \/ GenerateSeededUlid

\* the two stateless generation functions of ulid-generator.ts and the clock
SpecGen == InitFacade /\ [][NextGen]_vars

NextGlobal ==
  \/ Tick
  \/ GenerateMonotonicUlid

\* the process-wide generator of ulid-generator.ts, its callers and the clock
SpecGlobal == InitFacade /\ [][NextGlobal]_vars

----------------------------------------------------------------------------
(* McpServer (src/src/mcp-server.ts) over ulid-generator.ts.                 *)
(* A string member that is missing is '': the code tests such members only   *)
(* by !x, which '' and undefined answer alike.  A params or arguments        *)
(* object carries present = FALSE when the request has none.  A text is      *)
(* kept as its parts: <<"Error: ", message>>, or what JSON.stringify made.   *)

METHOD_NOT_FOUND == -32601

INVALID_PARAMS == -32602

INTERNAL_ERROR == -32603

\* a missing string member
Missing == ""

\* a missing arguments.count
NoCount == 0

\* decodeTime(id) of the `ulid` package: decodes the timestamp field of id
ulidDecodeTime(id) ==
  LET timestamp == decodeTimeLoop(Slice(id, 0, TIME_LEN), 0, Zero)
  IN  IF timestamp.status = "throw" THEN Throw("InvalidCharacter") ELSE timestamp

\* parseUlid(ulidString); date is the Date's time value
ParseUlid(ulidString) ==
  IF Len(ulidString) # 26
    THEN Throw("Invalid ULID length")
    ELSE LET timestampPart  == Slice(ulidString, 0, 10)
             randomnessPart == Slice(ulidString, 10, Len(ulidString))
             timestamp      == ulidDecodeTime(ulidString)
         IN  IF timestamp.status = "throw"
               THEN timestamp
               ELSE Ok([ulid |-> ulidString,
                        timestampPart |-> timestampPart,
                        randomnessPart |-> randomnessPart,
                        timestamp |-> timestamp.value,
                        date |-> timestamp.value])

\* JSON.stringify(result, null, 2) of an object: the text of a JSON object
JsonStringify(result) == [json |-> "object", members |-> result]

\* { content: [{ type: 'text', text }] }
TextResult(text) == [content |-> <<[type |-> "text", text |-> text]>>, isError |-> FALSE]

\* createErrorResponse(id, code, message)
createErrorResponse(id, code, message) ==
  [jsonrpc |-> "2.0", id |-> id, kind |-> "error",
   body |-> [code |-> code, message |-> message]]

\* { jsonrpc: '2.0', id, result }
ResultResponse(id, result) ==
  [jsonrpc |-> "2.0", id |-> id, kind |-> "result", body |-> result]

\* return { content: [{ type: 'text', text: JSON.stringify(result, null, 2) }] }
\* after a facade call with outcome r; an exception goes on to the caller
ToolReturn(r) ==
  IF r.status = "ok" THEN Ok(TextResult(JsonStringify(r.value))) ELSE r

\* a tool's outcome out, the generator g and the clock reading it leaves
ToolDone(out, g, clock) == [out |-> ToolReturn(out), g |-> g, now |-> clock]

\* case 'generate_standard_ulid'
StandardTool(r, g, clock, later) ==
  ToolDone(r, g, IF r.status = "ok" THEN later ELSE clock)

\* case 'generate_monotonic_ulid', r being what generateMonotonicUlid did
MonotonicTool(r, clock) == ToolDone(r.out, r.g, clock)

\* executeToolCall(params) with the process-wide generator g: the outcome, the
\* generator and the clock it leaves
executeToolCall(params, g, clock, later, bytes) ==
  LET seedTime == IF params.arguments.present THEN params.arguments.seedTime
                                              ELSE Undefined
      ulidArg  == IF params.arguments.present THEN params.arguments.ulid
                                              ELSE Undefined
  IN  CASE params.name = "generate_standard_ulid" ->
             StandardTool(StandardUlid(clock, later, bytes), g, clock, later)
        [] params.name = "generate_seeded_ulid" ->
             ToolDone(SeededUlid(seedTime, clock, bytes), g, clock)
        [] params.name = "generate_monotonic_ulid" ->
             MonotonicTool(GlobalGenerate(g, seedTime, clock, bytes), clock)
        [] params.name = "parse_ulid" ->
             IF ulidArg = << >>
               THEN [out |-> Throw("Missing or invalid required parameter: ulid"),
                     g |-> g, now |-> clock]
               ELSE ToolDone(ParseUlid(ulidArg), g, clock)
        [] OTHER ->
             [out |-> Throw("Unknown tool"), g |-> g, now |-> clock]

\* handleInitialize(request)
handleInitialize(request) ==
  IF ~request.params.present \/ request.params.protocolVersion = Missing
    THEN createErrorResponse(request.id, INVALID_PARAMS,
                             "Missing required parameter: protocolVersion")
    ELSE ResultResponse(request.id,
                        [protocolVersion |-> "2024-11-05",
                         capabilities |-> [tools |-> [listChanged |-> FALSE]],
                         serverInfo |-> [name |-> "ulid-generator-mcp",
                                         version |-> "1.0.0",
                                         protocolVersion |-> "2024-11-05"]])

\* the names of this.tools
ToolNames ==
  {"generate_standard_ulid", "generate_seeded_ulid", "generate_monotonic_ulid",
   "parse_ulid"}

\* handleToolsList(request)
handleToolsList(request) == ResultResponse(request.id, [tools |-> ToolNames])

\* a variant whose catch block answers with a JSON-RPC error
ToolsCallResponse_AnswersWithError(id, r) ==
  [response |->
     IF r.out.status = "ok"
       THEN ResultResponse(id, r.out.value)
       ELSE createErrorResponse(id, INTERNAL_ERROR, r.out.value),
   g |-> r.g, now |-> r.now]

\* handleToolsCall past the name check, r being what executeToolCall did: its
\* result, or the result its catch block builds
ToolsCallResponse(id, r) ==
  [response |->
     IF r.out.status = "ok"
       THEN ResultResponse(id, r.out.value)
       ELSE ResultResponse(id,
              [content |-> <<[type |-> "text", text |-> <<"Error: ", r.out.value>>]>>,
               isError |-> TRUE]),
   g |-> r.g, now |-> r.now]

\* handleToolsCall(request): the response, the generator and the clock it leaves
handleToolsCall(request, g, clock, later, bytes) ==
  IF ~request.params.present \/ request.params.name = Missing
    THEN [response |-> createErrorResponse(request.id, INVALID_PARAMS,
                                           "Missing required parameter: name"),
          g |-> g, now |-> clock]
    ELSE ToolsCallResponse(request.id,
                           executeToolCall(request.params, g, clock, later, bytes))

\* handleRequest(request)
handleRequest(request, g, clock, later, bytes) ==
  CASE request.method = "initialize" ->
         [response |-> handleInitialize(request), g |-> g, now |-> clock]
    [] request.method = "tools/list" ->
         [response |-> handleToolsList(request), g |-> g, now |-> clock]
    [] request.method = "tools/call" ->
         handleToolsCall(request, g, clock, later, bytes)
    [] OTHER ->
         [response |-> createErrorResponse(request.id, METHOD_NOT_FOUND,
                                           "Method not found"),
          g |-> g, now |-> clock]

\* the largest arguments.count the model sends
MaxCount == 150

\* how many times in a row the server's generator increments in the model
MaxServerIncs == 1

\* the byte streams the random source gives the server
ServerStreams == {bytes \in RandomStreams : bytes[1] = 0}

NoArguments == [present |-> FALSE, seedTime |-> Undefined, count |-> NoCount,
                ulid |-> Undefined]

NoParams == [present |-> FALSE, protocolVersion |-> Missing, name |-> Missing,
             arguments |-> NoArguments]

\* params of initialize requests
InitializeParams ==
  {NoParams} \cup
  { [present |-> TRUE, protocolVersion |-> v, name |-> Missing,
     arguments |-> NoArguments] : v \in {Missing, "2024-11-05"} }

\* arguments of generate_standard_ulid calls: counts
StandardArguments ==
  {NoArguments} \cup
  { [present |-> TRUE, seedTime |-> Undefined, count |-> count, ulid |-> Undefined] :
      count \in {NoCount, 1, 5, MaxCount} }

\* arguments of generate_seeded_ulid and generate_monotonic_ulid calls: seed
\* times and counts
SeededArguments ==
  {NoArguments} \cup
  { [present |-> TRUE, seedTime |-> seedTime, count |-> count, ulid |-> Undefined] :
      seedTime \in {Undefined, T1, Small(-1)}, count \in {NoCount, 5} }

\* arguments of parse_ulid calls
ParseArguments ==
  {NoArguments} \cup
  { [present |-> TRUE, seedTime |-> Undefined, count |-> NoCount, ulid |-> u] :
      u \in {Undefined, <<"i", "n", "v", "a", "l", "i", "d">>, KnownUlid} }

\* params of tools/call requests
ToolsCallParams ==
  {NoParams}
    \cup { [present |-> TRUE, protocolVersion |-> Missing, name |-> name,
            arguments |-> NoArguments] : name \in {Missing, "no_such_tool"} }
    \cup { [present |-> TRUE, protocolVersion |-> Missing,
            name |-> "generate_standard_ulid", arguments |-> arguments] :
             arguments \in StandardArguments }
    \cup { [present |-> TRUE, protocolVersion |-> Missing, name |-> name,
            arguments |-> arguments] :
             name \in {"generate_seeded_ulid", "generate_monotonic_ulid"},
             arguments \in SeededArguments }
    \cup { [present |-> TRUE, protocolVersion |-> Missing, name |-> "parse_ulid",
            arguments |-> arguments] : arguments \in ParseArguments }

\* the requests the model sends
Requests ==
  { [id |-> id, method |-> method, params |-> params] :
      id \in {1, 2}, method \in {"initialize"}, params \in InitializeParams }
    \cup { [id |-> id, method |-> method, params |-> NoParams] :
             id \in {1, 2}, method \in {"tools/list", "resources/list"} }
    \cup { [id |-> id, method |-> method, params |-> params] :
             id \in {1, 2}, method \in {"tools/call"}, params \in ToolsCallParams }

\* the request reaches generateMonotonicUlid, which would increment
ServerRepeats(request) ==
  /\ request.method = "tools/call"
  /\ request.params.present
  /\ request.params.name = "generate_monotonic_ulid"
  /\ GenRepeats(request.params.arguments.seedTime)

\* the tool a request reaches, if any
ToolOf(request) ==
  IF request.method = "tools/call" /\ request.params.present
    THEN request.params.name
    ELSE Missing

\* the random bytes a request can consume: none unless it reaches a generator
StreamsFor(request) ==
  IF ToolOf(request) \in ToolNames \ {"parse_ulid"}
    THEN ServerStreams
    ELSE {CHOOSE bytes \in ServerStreams : TRUE}

\* the clock readings a second read can give: only generateStandardUlid reads twice
LatersFor(request) ==
  IF ToolOf(request) = "generate_standard_ulid"
    THEN {later \in ClockValues : ~NumLess(later, now)}
    ELSE {now}

\* the state a handled request leaves, r being what handleRequest did
McpHandled(request, r) ==
  /\ ret' = [op |-> "handleRequest", arg |-> request, clock |-> now,
             status |-> "ok", value |-> r.response]
  /\ gen' = r.g
  /\ now' = r.now
  /\ genIncs' = IF r.g = gen THEN genIncs
                ELSE IF ServerRepeats(request) THEN genIncs + 1 ELSE 0
  /\ served' = IF /\ r.g # gen
                  /\ request.params.arguments.seedTime = TrackedSeed
                  /\ r.g.generator.lastTime = TrackedSeed
                  /\ r.response.kind = "result"
                  /\ ~r.response.body.isError
                 THEN r.response.body.content[1].text.members.ulid
                 ELSE served

\* server.handleRequest(request)
McpHandleRequest ==
  /\ \E request \in Requests :
     \E bytes \in StreamsFor(request), later \in LatersFor(request) :
       /\ ServerRepeats(request) => genIncs < MaxServerIncs
       /\ McpHandled(request, handleRequest(request, gen, now, later, bytes))
  /\ UNCHANGED <<cf, incs, emitted>>

NextServer == McpHandleRequest

\* one McpServer, its clients and the clock
SpecServer == InitFacade /\ [][NextServer]_vars

----------------------------------------------------------------------------
(* The stateless functions called between calls of the two sequencers *)

\* seed times handed to the calls that are interleaved
FrameSeeds == {Undefined, Small(-1), T1}

\* clock readings of the interleaved calls: one out of range, one in range
FrameClock == {Small(-1), T1}

\* strings handed to the parse calls that are interleaved: the known vector, one
\* with a character outside the alphabet in its timestamp, one of the wrong length
FrameParseInputs ==
  {KnownUlid, [KnownUlid EXCEPT ![1] = "U"], <<"i", "n", "v", "a", "l", "i", "d">>}

\* of the random streams, the interleaved calls are given the one of the bytes
\* 0, ..., 0, 250: the randomness of the result of the call just made is
\* 000000000000000T, or counted up from it
FrameDrawn ==
  (ret'.status = "ok" /\ Len(ret'.value.randomness) > 0)
    => /\ ret'.value.randomness[1] = "0"
       /\ ret'.value.randomness[RANDOM_LEN] # "Z"

FrameTick == Tick /\ now' \in FrameClock

FrameCfGenerate == CfGenerateMonotonicUlid /\ FrameDrawn

FrameGlobalGenerate ==
  GenerateMonotonicUlid /\ ret'.arg \in FrameSeeds /\ FrameDrawn

FrameStandard == GenerateStandardUlid /\ now' \in FrameClock /\ FrameDrawn

FrameSeeded == GenerateSeededUlid /\ ret'.arg \in FrameSeeds /\ FrameDrawn

\* parseUlid(ulidString)
FrameParse ==
  /\ \E ulidString \in FrameParseInputs :
       LET r == ParseUlid(ulidString)
       IN  ret' = [op |-> "parseUlid", arg |-> ulidString, clock |-> Undefined,
                   status |-> r.status, value |-> r.value]
  /\ UNCHANGED <<now, cf, incs, gen, genIncs, emitted, served>>

\* parseCloudflareUlid(ulidString)
FrameCloudflareParse ==
  /\ \E ulidString \in FrameParseInputs :
       LET r == CloudflareParse(ulidString)
       IN  ret' = [op |-> "parseCloudflareUlid", arg |-> ulidString, clock |-> Undefined,
                   status |-> r.status, value |-> r.value]
  /\ UNCHANGED <<now, cf, incs, gen, genIncs, emitted, served>>

InitFrame == InitFacade /\ now \in FrameClock

NextFrame ==
  \/ FrameTick
  \/ FrameCfGenerate
  \/ FrameGlobalGenerate
  \/ FrameStandard
  \/ FrameSeeded
  \/ FrameParse
  \/ FrameCloudflareParse

\* a sequencer of ulid-cloudflare.ts and the process-wide generator of
\* ulid-generator.ts, with the stateless functions called in between
SpecFrame == InitFrame /\ [][NextFrame]_vars

----------------------------------------------------------------------------
(* The codec on its own: encodeTime and decodeTime applied to drawn inputs *)

\* the largest low limb, counted from 0 and back from LIMB - 1, the codec is fed
MaxLow == 33

\* times the codec is fed: below, at and above each limb and range boundary,
\* and from 32^10 = LIMB * LIMB on, where ten digits no longer hold the value
CodecTimes ==
  { Num(hi, lo) :
      hi \in {0, 1, 31, 32, 48905, 8388606, 8388607, LIMB, LIMB + 1},
      lo \in (0..MaxLow) \cup {LIMB - 1 - k : k \in 0..MaxLow} }

InitCodec ==
  /\ now \in {T1}
  /\ cf = CfNew(Undefined)
  /\ incs = 0
  /\ gen = GenNew(Undefined)
  /\ genIncs = 0
  /\ emitted = NoneEmitted
  /\ served = Undefined
  /\ \E time \in CodecTimes :
       ret = [op |-> "input", arg |-> time, clock |-> Undefined,
              status |-> "ok", value |-> Undefined]

\* encodeTime(time, 10)
EncodeTimeCall ==
  /\ ret.op = "input"
  /\ ret' = [op |-> "encodeTime", arg |-> ret.arg, clock |-> Undefined,
             status |-> "ok", value |-> encodeTime(ret.arg, TIME_LEN)]
  /\ UNCHANGED <<now, cf, incs, gen, genIncs, emitted, served>>

\* decodeTime(encodedTime) on what encodeTime returned for arg.time
DecodeTimeCall ==
  /\ ret.op = "encodeTime"
  /\ LET r == decodeTime(ret.value)
     IN  ret' = [op |-> "decodeTime", arg |-> [encodedTime |-> ret.value, time |-> ret.arg],
                 clock |-> Undefined, status |-> r.status, value |-> r.value]
  /\ UNCHANGED <<now, cf, incs, gen, genIncs, emitted, served>>

NextCodec ==
  \/ EncodeTimeCall
  \/ DecodeTimeCall

SpecCodec == InitCodec /\ [][NextCodec]_vars

----------------------------------------------------------------------------
(* incrementBase32 on its own, applied to drawn strings *)

\* the longest of the short strings incrementBase32 is fed
MaxIncLen == 3

\* the characters of the short strings: both ends of the alphabet and the
\* neighbours of the letters it leaves out
IncChars == {"0", "1", "9", "A", "H", "J", "Y", "Z"}

RECURSIVE StringsOver(_, _)
\* the strings of length n over chars
StringsOver(chars, n) ==
  IF n = 0 THEN {<< >>}
  ELSE {<<c>> \o t : c \in chars, t \in StringsOver(chars, n - 1)}

\* strings handed to incrementBase32: every short string over IncChars, and
\* 16-character strings of '0's or 'Z's ending in each two-character tail
IncrementInputs ==
  UNION {StringsOver(IncChars, n) : n \in 1..MaxIncLen}
    \cup {Repeat(c, RANDOM_LEN - 2) \o t : c \in {"0", "Z"}, t \in StringsOver(IncChars, 2)}

InitIncrement ==
  /\ now \in {T1}
  /\ cf = CfNew(Undefined)
  /\ incs = 0
  /\ gen = GenNew(Undefined)
  /\ genIncs = 0
  /\ emitted = NoneEmitted
  /\ served = Undefined
  /\ \E str \in IncrementInputs :
       ret = [op |-> "input", arg |-> str, clock |-> Undefined,
              status |-> "ok", value |-> Undefined]

\* incrementBase32(str)
IncrementCall ==
  /\ ret.op = "input"
  /\ \E bytes \in RandomStreams :
       LET r == incrementBase32(ret.arg, bytes)
       IN  ret' = [op |-> "incrementBase32", arg |-> ret.arg, clock |-> Undefined,
                   status |-> r.status, value |-> r.value]
  /\ UNCHANGED <<now, cf, incs, gen, genIncs, emitted, served>>

NextIncrement == IncrementCall

SpecIncrement == InitIncrement /\ [][NextIncrement]_vars

----------------------------------------------------------------------------
(* Vocabulary of the properties *)

\* the 32 symbols of the alphabet
Alphabet == {ENCODING[i] : i \in 1..ENCODING_LEN}

\* 0 <= t <= 2^48 - 1
InRange(t) == t[1] >= 0 /\ t[1] <= 8388607

\* every digit of the counter is the maximum symbol
CounterOverflows(s) == \A i \in 1..Len(s) : s[i] = "Z"

\* b is a plus one as a big-endian base-32 counter of the same width
IsSuccessor(a, b) ==
  /\ Len(a) = Len(b)
  /\ \E k \in 1..Len(a) :
       /\ a[k] \in Alphabet /\ a[k] # "Z"
       /\ b[k] = ENCODING[EncodingIndex[a[k]] + 2]
       /\ \A j \in 1..(k - 1) : b[j] = a[j]
       /\ \A j \in (k + 1)..Len(a) : a[j] = "Z" /\ b[j] = "0"

\* the timestamp a generation call is to use: its seed time, or the clock it read
EffectiveTime(seedTime, clock) ==
  IF seedTime = Undefined \/ seedTime = Zero THEN clock ELSE seedTime

\* the last call was a generation call of ulid-cloudflare.ts
IsGeneration == ret.op \in {"generateCloudflareUlid", "generateMonotonicUlid"}

\* the seed time the last generation call ran with
RetSeed == IF ret.op = "generateMonotonicUlid" THEN cf.seedTime ELSE ret.arg

----------------------------------------------------------------------------
(* Properties *)

\* C1: successive generateMonotonicUlid calls of one sequencer held at a constant
\* seed time (no reset in between, no counter overflow) return strictly increasing
\* ULIDs with the same timePart, each randomPart the previous one plus one.
C1_ConstantSeedIncrements ==
  [][ ( /\ CfGenerateMonotonicUlid
        /\ ret.op = "generateMonotonicUlid" /\ ret.status = "ok"
        /\ ret'.status = "ok"
        /\ cf.seedTime # Undefined
        /\ ~CounterOverflows(ret.value.randomness) )
      => ( /\ StrLess(ret.value.ulid, ret'.value.ulid)
           /\ Slice(ret'.value.ulid, 0, 10) = Slice(ret.value.ulid, 0, 10)
           /\ IsSuccessor(ret.value.randomness, ret'.value.randomness) ) ]_vars

\* C2: every ULID a generation operation returns has length 26, a 10-character
\* timePart, a 16-character randomPart, and only characters of the alphabet.
C2_LengthAndAlphabet ==
  (IsGeneration /\ ret.status = "ok")
    => /\ Len(ret.value.ulid) = 26
       /\ Len(Slice(ret.value.ulid, 0, 10)) = 10
       /\ Len(Slice(ret.value.ulid, 10, Len(ret.value.ulid))) = 16
       /\ Len(ret.value.randomness) = 16
       /\ \A i \in 1..Len(ret.value.ulid) : ret.value.ulid[i] \in Alphabet

\* C4: generateSeeded with an explicitly supplied seedTime t in [0, 2^48-1], t = 0
\* included, returns timestamp t and the 10-character encoding of t as timePart.
C4_SuppliedSeedIsTimestamp ==
  (ret.op = "generateCloudflareUlid" /\ ret.arg # Undefined /\ InRange(ret.arg))
    => /\ ret.status = "ok"
       /\ ret.value.timestamp = ret.arg
       /\ Slice(ret.value.ulid, 0, 10) = encodeTime(ret.arg, TIME_LEN)

\* C5: a generation call (seeded or monotonic) whose effective timestamp is negative
\* or above 2^48-1 throws the time-range error and returns no ULID; every timestamp
\* in [0, 2^48-1], both ends included, is accepted.
C5_TimeRangeChecked ==
  IsGeneration
    => IF InRange(EffectiveTime(RetSeed, ret.clock))
         THEN ret.status = "ok"
              /\ ret.value.timestamp = EffectiveTime(RetSeed, ret.clock)
         ELSE ret.status = "throw" /\ ret.value = "Time must be a positive number"

\* C5's case: a seeded call at 2^48 was refused
C5_Witness ==
  /\ ret.op = "generateCloudflareUlid"
  /\ ret.arg = Num(LIMB \div 4, 0)
  /\ ret.status = "throw"

\* C6: a generateMonotonicUlid call that throws leaves lastTime and lastRandom as
\* they were, and the next successful call at the timestamp of the last emitted
\* result returns that result's randomPart plus one.
C6_FailedCallKeepsState ==
  [][ CfGenerateMonotonicUlid
      => /\ ret'.status = "throw"
              => cf'.lastTime = cf.lastTime /\ cf'.lastRandom = cf.lastRandom
         /\ ( /\ ret.op = "generateMonotonicUlid" /\ ret.status = "throw"
              /\ emitted.live
              /\ ret'.status = "ok"
              /\ ret'.value.timestamp = emitted.value.timestamp
              /\ ~CounterOverflows(emitted.value.randomness) )
              => IsSuccessor(emitted.value.randomness, ret'.value.randomness) ]_vars

\* C6's case: a call failed on a sequencer that had emitted, and its state is intact
C6_Witness ==
  /\ ret.op = "generateMonotonicUlid" /\ ret.status = "throw"
  /\ emitted.live
  /\ Len(cf.lastRandom) = RANDOM_LEN
  /\ cf.lastRandom = emitted.value.randomness

\* the value of five base-32 digits s[from + 1 .. from + 5], most significant first
FiveDigits(s, from) ==
  EncodingIndex[s[from + 1]] * 1048576 + EncodingIndex[s[from + 2]] * 32768
    + EncodingIndex[s[from + 3]] * 1024 + EncodingIndex[s[from + 4]] * 32
    + EncodingIndex[s[from + 5]]

\* the base-32 big-endian value of ten alphabet characters
TenDigitValue(s) == Num(FiveDigits(s, 0), FiveDigits(s, 5))

\* every character of s is in the alphabet
OverAlphabet(s) == \A i \in 1..Len(s) : s[i] \in Alphabet

\* C7: for every integer t in [0, 2^48-1], decodeTime(encodeTime(t, 10)) = t and
\* encodeTime(t, 10) is exactly 10 alphabet characters.
C7_TimeRoundTrip ==
  /\ (ret.op = "encodeTime" /\ InRange(ret.arg))
       => Len(ret.value) = 10 /\ OverAlphabet(ret.value)
  /\ (ret.op = "decodeTime" /\ InRange(ret.arg.time))
       => /\ Len(ret.arg.encodedTime) = 10 /\ OverAlphabet(ret.arg.encodedTime)
          /\ ret.status = "ok"
          /\ ret.value = ret.arg.time

\* C7's case: 2^48 - 1 went through encodeTime and decodeTime
C7_Witness ==
  /\ ret.op = "decodeTime"
  /\ ret.arg.time = Num(8388607, LIMB - 1)
  /\ ret.arg.encodedTime = <<"7", "Z", "Z", "Z", "Z", "Z", "Z", "Z", "Z", "Z">>

C9_ParseRejectsBadCharacters ==
  (ret.op = "parseCloudflareUlid" /\ Len(ret.arg) = 26 /\ ~OverAlphabet(ret.arg))
    => ret.status = "throw" /\ ret.value = "Invalid character in ULID"

\* the randomParts the random source can produce: one alphabet character per
\* byte; RandomStreams is chosen so that none is within MaxIncs + 1 increments
\* of another
DrawnRandoms ==
  { [i \in 1..RANDOM_LEN |-> ENCODING[(bytes[i] % 32) + 1]] : bytes \in RandomStreams }

\* C3: for every result of generateStandard, generateSeeded and generateMonotonic,
\* timestamp is the integer decoded from the first 10 characters of ulid and
\* randomness is the last 16 characters of ulid, whatever the clock does,
\* including a clock that advances between the reads of one call.
C3_ResultFieldsMatchUlid ==
  (ret.op \in {"generateStandardUlid", "generateSeededUlid"} /\ ret.status = "ok")
    => /\ TenDigitValue(SubSeq(ret.value.ulid, 1, 10)) = ret.value.timestamp
       /\ ret.value.randomness = SubSeq(ret.value.ulid, 11, 26)

C10_ProcessWideReseed ==
  [][ ( /\ GenerateMonotonicUlid
        /\ ret.op = "generateMonotonicUlid" /\ ret.status = "ok"
        /\ gen.seedTime # Undefined
        /\ ret'.arg # Undefined
        /\ NumLess(gen.seedTime, ret'.arg)
        /\ InRange(ret'.arg) )
      => ( /\ ret'.status = "ok"
           /\ ret'.value.timestamp = ret'.arg
           /\ TenDigitValue(SubSeq(ret'.value.ulid, 1, 10)) = ret'.arg
           /\ ret'.value.randomness \in DrawnRandoms ) ]_vars

\* an increment short of overflow never yields a string the random source produces
IncrementsAreNotDrawn ==
  [][ ( /\ CfGenerateMonotonicUlid
        /\ CfRepeats
        /\ ~CounterOverflows(cf.lastRandom)
        /\ ret'.status = "ok" )
      => ret'.value.randomness \notin DrawnRandoms ]_vars

\* C11: reset(seedTime?) never fails and from any state leaves lastTime = 0,
\* lastRandom = '' and the given seed time (or none); the generate call that
\* follows a reset draws fresh randomness rather than incrementing, also when its
\* timestamp equals the one used before the reset.
C11_ResetGoesBackToFresh ==
  [][ /\ CfReset
        => /\ ret'.status = "ok"
           /\ cf' = [seedTime |-> ret'.arg, lastTime |-> Zero, lastRandom |-> << >>]
      /\ (CfGenerateMonotonicUlid /\ ret.op = "reset" /\ ret'.status = "ok")
        => ret'.value.randomness \in DrawnRandoms ]_vars

\* C12: generateMonotonicUlid called with seedTime omitted returns the current
\* wall-clock time as timestamp, in every state of the process-wide generator,
\* also after an earlier call that supplied an explicit seedTime.
C12_OmittedSeedUsesClock ==
  (ret.op = "generateMonotonicUlid" /\ ret.arg = Undefined /\ InRange(ret.clock))
    => /\ ret.status = "ok"
       /\ ret.value.timestamp = ret.clock

\* C13: every generate_monotonic_ulid call that specifies seed time S returns a
\* ULID strictly greater than every ULID returned earlier for seed time S, also
\* when calls specifying other seed times are interleaved (S = TrackedSeed; the
\* overflow recovery of the counter is left aside).
C13_SameSeedKeepsIncreasing ==
  [][ ( /\ GenerateMonotonicUlid
        /\ ret'.arg = TrackedSeed
        /\ ret'.status = "ok"
        /\ served # Undefined
        /\ ~(GenRepeats(TrackedSeed) /\ CounterOverflows(gen.generator.lastRandom)) )
      => StrLess(served, ret'.value.ulid) ]_vars

\* C14: two consecutive calls of the process-wide generateMonotonicUlid with the
\* same explicit seed time S in [0, 2^48-1], after any history, both return
\* timestamp S, and the second ULID is strictly greater than the first (the
\* overflow recovery of the counter is left aside).
C14_TwoCallsSameSeed ==
  [][ ( /\ GenerateMonotonicUlid
        /\ ret.op = "generateMonotonicUlid"
        /\ ret.arg # Undefined /\ InRange(ret.arg)
        /\ ret'.arg = ret.arg
        /\ ~CounterOverflows(gen.generator.lastRandom) )
      => ( /\ ret.status = "ok" /\ ret'.status = "ok"
           /\ ret.value.timestamp = ret.arg
           /\ ret'.value.timestamp = ret.arg
           /\ StrLess(ret.value.ulid, ret'.value.ulid) ) ]_vars

\* the last call was a tools/call request that reached a generation tool
IsGenerationToolCall ==
  /\ ret.op = "handleRequest"
  /\ ToolOf(ret.arg) \in {"generate_standard_ulid", "generate_seeded_ulid",
                          "generate_monotonic_ulid"}

\* C15: a generation tool called through tools/call with arguments.count = N,
\* N >= 1, answers with a text that is a JSON array of exactly min(N, 100)
\* generation results.
C15_CountGivesThatManyResults ==
  ( /\ IsGenerationToolCall
    /\ ret.arg.params.arguments.present
    /\ ret.arg.params.arguments.count >= 1
    /\ ret.value.kind = "result"
    /\ ~ret.value.body.isError )
    => /\ ret.value.body.content[1].text.json = "array"
       /\ Len(ret.value.body.content[1].text.members)
            = (IF ret.arg.params.arguments.count < 100
                 THEN ret.arg.params.arguments.count ELSE 100)

\* C16: handleRequest always echoes the request id; an unknown method gives a
\* JSON-RPC error with code -32601; initialize without protocolVersion and
\* tools/call without a tool name give a JSON-RPC error with code -32602; an
\* unknown tool name or an exception thrown by a tool (parse_ulid on an invalid
\* ULID) gives a non-error response whose result has isError = true and a text
\* starting with 'Error:'.
C16_FailuresAreClassified ==
  ret.op = "handleRequest"
    => /\ ret.value.id = ret.arg.id
       /\ ret.value.jsonrpc = "2.0"
       /\ ret.arg.method \notin {"initialize", "tools/list", "tools/call"}
            => ret.value.kind = "error" /\ ret.value.body.code = -32601
       /\ ( /\ ret.arg.method = "initialize"
            /\ ~ret.arg.params.present \/ ret.arg.params.protocolVersion = "" )
            => ret.value.kind = "error" /\ ret.value.body.code = -32602
       /\ ( /\ ret.arg.method = "tools/call"
            /\ ~ret.arg.params.present \/ ret.arg.params.name = "" )
            => ret.value.kind = "error" /\ ret.value.body.code = -32602
       /\ ( /\ ret.arg.method = "tools/call"
            /\ ret.arg.params.present /\ ret.arg.params.name # "" )
            => /\ ret.value.kind = "result"
               /\ ret.value.body.isError
                    => ret.value.body.content[1].text[1] = "Error: "
               /\ ret.arg.params.name \notin ToolNames => ret.value.body.isError
               /\ ( /\ ret.arg.params.name = "parse_ulid"
                    /\ \/ ~ret.arg.params.arguments.present
                       \/ Len(ret.arg.params.arguments.ulid) # 26 )
                    => ret.value.body.isError

\* C16's case: parse_ulid was called on 'invalid' in request 2 and the answer
\* is a result with isError
C16_Witness ==
  /\ ret.op = "handleRequest"
  /\ ret.arg.id = 2
  /\ ToolOf(ret.arg) = "parse_ulid"
  /\ ret.arg.params.arguments.ulid = <<"i", "n", "v", "a", "l", "i", "d">>
  /\ ret.value.kind = "result"
  /\ ret.value.body.isError
  /\ ret.value.body.content[1].text = <<"Error: ", "Invalid ULID length">>

\* C17: on one sequencer instance (no reset in between), when the timestamp of
\* a result is not smaller than that of the result before it and the counter
\* does not overflow (a 16-character randomPart of all 'Z'), the ULID returned is
\* strictly greater lexicographically than the one before it.
C17_UlidsIncrease ==
  [][ ( /\ CfGenerateMonotonicUlid
        /\ emitted.live
        /\ ret'.status = "ok"
        /\ ~NumLess(ret'.value.timestamp, emitted.value.timestamp)
        /\ ~(Len(cf.lastRandom) > 0 /\ CfRepeats /\ CounterOverflows(cf.lastRandom)) )
      => StrLess(emitted.value.ulid, ret'.value.ulid) ]_vars

RECURSIVE DigitsValue(_)
\* the base-32 big-endian value of a short string over the alphabet
DigitsValue(s) ==
  IF Len(s) = 0 THEN 0
  ELSE DigitsValue(SubSeq(s, 1, Len(s) - 1)) * 32 + EncodingIndex[s[Len(s)]]

\* C18: for every non-empty string s over the alphabet that is not all 'Z',
\* incrementBase32(s) has the length of s and the value of s plus one: the
\* rightmost non-'Z' digit is replaced by its successor, every digit to its right
\* becomes '0' and every digit to its left is unchanged.
C18_IncrementAddsOne ==
  ( /\ ret.op = "incrementBase32"
    /\ Len(ret.arg) > 0
    /\ ~CounterOverflows(ret.arg) )
    => /\ ret.status = "ok"
       /\ Len(ret.value) = Len(ret.arg)
       /\ OverAlphabet(ret.value)
       /\ IsSuccessor(ret.arg, ret.value)
       /\ Len(ret.arg) <= MaxIncLen => DigitsValue(ret.value) = DigitsValue(ret.arg) + 1

\* C18's case: 0YZ was incremented with a carry, crossing to 0Z0
C18_Witness ==
  /\ ret.op = "incrementBase32"
  /\ ret.arg = <<"0", "Y", "Z">>
  /\ ret.value = <<"0", "Z", "0">>

\* C19: when the increment is applied to a 16-character randomPart whose digits
\* are all 'Z', the call does not fail and returns neither a shorter nor an
\* all-'0' string but a freshly drawn one of width 16; the sequencer stores it as
\* lastRandom and leaves lastTime as it was, and a call at the same timestamp
\* that finds a 16-character lastRandom below the maximum increments from it.
C19_OverflowDrawsAnew ==
  [][ /\ ( /\ CfGenerateMonotonicUlid
           /\ CfRepeats
           /\ Len(cf.lastRandom) = RANDOM_LEN
           /\ CounterOverflows(cf.lastRandom) )
         => /\ ret'.status = "ok"
            /\ Len(ret'.value.randomness) = RANDOM_LEN
            /\ ret'.value.randomness # Repeat("0", RANDOM_LEN)
            /\ ret'.value.randomness \in DrawnRandoms
            /\ cf'.lastRandom = ret'.value.randomness
            /\ cf'.lastTime = cf.lastTime
      /\ ( /\ CfGenerateMonotonicUlid
           /\ CfRepeats
           /\ Len(cf.lastRandom) = RANDOM_LEN
           /\ ~CounterOverflows(cf.lastRandom) )
         => /\ ret'.status = "ok"
            /\ IsSuccessor(cf.lastRandom, ret'.value.randomness)
            /\ cf'.lastRandom = ret'.value.randomness ]_vars

\* C19's case: the counter overflowed, a string was drawn in its place, and the
\* next call at the same timestamp returned that string plus one
C19_Witness ==
  /\ ret.op = "generateMonotonicUlid"
  /\ ret.status = "ok"
  /\ incs = 2
  /\ cf.lastRandom = ret.value.randomness
  /\ \E d \in DrawnRandoms : IsSuccessor(d, ret.value.randomness)

StatelessOps ==
  {"parseUlid", "parseCloudflareUlid", "generateStandardUlid", "generateSeededUlid"}

\* C21: parse, generateStandard and generateSeeded, whether they succeed or fail,
\* leave the state of every monotonic sequencer (seed time, lastTime, lastRandom),
\* the process-wide one included, as it was, so that calling them between
\* monotonic calls does not change what the monotonic calls find.
C21_StatelessCallsKeepSequencers ==
  [][ ret'.op \in StatelessOps => (cf' = cf /\ gen' = gen) ]_vars

\* C21's case: generateSeededUlid failed while both sequencers held a last result
C21_Witness ==
  /\ ret.op = "generateSeededUlid"
  /\ ret.status = "throw"
  /\ Len(cf.lastRandom) = RANDOM_LEN
  /\ Len(gen.generator.lastRandom) = RANDOM_LEN
  /\ gen.seedTime = T1

====
